---- MODULE Spec2Model ----
(***************************************************************************)
(* A model of displayClass.h: the StringUnit / StringUnitBuffer circular   *)
(* queue of pending texts and the DrawText scroller that owns it, together *)
(* with the timing gate of DisplayMatrix.                                  *)
(***************************************************************************)
EXTENDS Integers, Sequences, FiniteSets, TLC

(***************************************************************************)
(* Program constants.                                                      *)
(***************************************************************************)
MAX_STRING_LENGTH == 256

MAX_STRING_BUFFER_SIZE == 64

(***************************************************************************)
(* Bounds of the model.                                                    *)
(***************************************************************************)
\* largest repeat count a producer passes
MaxRepeat == 3

\* number of entries producers push in the specification Spec
MaxPush == 2

\* number of entries ever enqueued in the specification SpecFill
\* (MAX_STRING_BUFFER_SIZE plus this many, so that the tail wraps)
MaxExtra == 3

(***************************************************************************)
(* Texts.  A C string is the sequence of its characters; strlen is its     *)
(* length.  LongText is a text of MAX_STRING_LENGTH characters, the        *)
(* shortest one setValues refuses.                                         *)
(***************************************************************************)
strlen(str) == Len(str)

EmptyText == << >>

TextA == <<"A">>

TextHI == <<"H", "I">>

LongText == [i \in 1..MAX_STRING_LENGTH |-> "x"]

Texts == {TextA, TextHI, LongText}

Repeats == 0..MaxRepeat

Colors == {0, 1}

\* the colour a producer gives a text: it alternates with the length of the
\* text and with the repeat count
colorOf(str, repeat) == (strlen(str) + repeat) % 2

\* the arguments of one producer call
Inputs ==
  {in \in Texts \X Repeats \X Colors : in[3] = colorOf(in[1], in[2])}

DefaultInput == <<TextA, 1, 0>>

Slots == 0..(MAX_STRING_BUFFER_SIZE - 1)

VARIABLES
  _sBuffer,     \* StringUnitBuffer::_sBuffer, the StringUnit of every slot
  _first,       \* StringUnitBuffer::_first (head)
  _last,        \* StringUnitBuffer::_last (tail)
  buf,          \* the caller's text buffer handed to popFirst
  colorIndex,   \* the caller's colour index handed to popFirst
  _textInBuffer,   \* DrawText::_textInBuffer
  _colPtr,         \* DrawText::_colPtr
  _colLen,         \* DrawText::_colLen
  _displayBuffer,  \* DrawText::_displayBuffer, the columns of the active text
  _lastUpdateTime, \* DisplayMatrix::_lastUpdateTime
  _delayMS,        \* DisplayMatrix::_delayMS
  _leds,           \* the pixel grid, a sequence of Width columns
  ncols,           \* history: number of columns DrawText::update() has drawn
  _paletteIndex,   \* DisplayMatrix::_paletteIndex
  life,            \* the GameOfLife object: its board, timer and _counter
  unit,            \* a StringUnit on its own
  now,             \* the clock, millis()
  call,         \* the last call made: its name, arguments and result
  tag,          \* history: for every slot, which push created its entry
  pushed,       \* history: the arguments of every successful producer call
                \*          and the text the queue kept for it
  popCount,     \* history: how often popFirst has returned each entry
  npush,        \* history: number of entries producers have pushed
  nenq          \* history: number of entries ever enqueued

queueVars == <<_sBuffer, _first, _last>>

outVars == <<buf, colorIndex>>

histVars == <<tag, pushed, popCount, npush, nenq>>

textVars == <<_textInBuffer, _colPtr, _colLen, _displayBuffer, _leds, ncols>>

\* the objects that the queue and the scroller do not touch
objVars == <<_paletteIndex, life, unit>>

timeVars == <<_lastUpdateTime, _delayMS, now>>

vars == <<_sBuffer, _first, _last, buf, colorIndex, _textInBuffer, _colPtr,
          _colLen, _displayBuffer, _lastUpdateTime, _delayMS, _leds, now,
          call, tag, pushed, popCount, npush, nenq, ncols, _paletteIndex,
          life, unit>>

(***************************************************************************)
(* StringUnit                                                              *)
(***************************************************************************)
\* StringUnit(): _str = "", _repeat = 0, _colorIndex = 0
StringUnit == [_str |-> EmptyText, _repeat |-> 0, _colorIndex |-> 0]

\* setValues: the text is stored only when it is shorter than
\* MAX_STRING_LENGTH; repeat and colour are stored in any case
setValues(u, str, repeat, col) ==
  [_str        |-> IF strlen(str) < MAX_STRING_LENGTH THEN str ELSE u._str,
   _repeat     |-> repeat,
   _colorIndex |-> col]

getRepeat(u) == u._repeat

\* mutant of setRepeat: the argument is stored
setRepeat_assigns(u, repeat) == [u EXCEPT !._repeat = repeat]

\* setRepeat(repeat) { _repeat = _repeat; }
setRepeat(u, repeat) == [u EXCEPT !._repeat = u._repeat]

\* setString: the text is stored only when it is shorter than
\* MAX_STRING_LENGTH
setString(u, str) ==
  [u EXCEPT !._str = IF strlen(str) < MAX_STRING_LENGTH THEN str ELSE @]

\* copyString(buf): strcpy(buf, _str.c_str())
copyString(u) == u._str

getColorIndex(u) == u._colorIndex

(***************************************************************************)
(* StringUnitBuffer                                                        *)
(***************************************************************************)
isEmpty(first, last) == last = first

\* mutant of isFull: the tail is compared without wrapping it
isFull_noWrap(first, last) == last + 1 = first

isFull(first, last) == (last + 1) % MAX_STRING_BUFFER_SIZE = first

\* mutant of nElements: the tail is never taken to have wrapped
nElements_noWrap(first, last) == (last - first) % 256

\* nElements returns uint8_t
nElements(first, last) ==
  IF last < first
    THEN (MAX_STRING_BUFFER_SIZE + last - first) % 256
    ELSE (last - first) % 256

\* mutant of push: the entry is written without asking whether the queue
\* is full
push_noFullCheck(sBuffer, first, last, str, repeat, col) ==
  [ret     |-> TRUE,
   sBuffer |-> [sBuffer EXCEPT ![last] = setValues(@, str, repeat, col)],
   last    |-> (last + 1) % MAX_STRING_BUFFER_SIZE]

\* push: the queue after the call, and what the call returns
push(sBuffer, first, last, str, repeat, col) ==
  IF isFull(first, last)
    THEN [ret |-> FALSE, sBuffer |-> sBuffer, last |-> last]
    ELSE [ret     |-> TRUE,
          sBuffer |-> [sBuffer EXCEPT ![last] = setValues(@, str, repeat, col)],
          last    |-> (last + 1) % MAX_STRING_BUFFER_SIZE]

\* mutant of popFirst: an entry is queued again while its repeat count is
\* above 0, not above 1
popFirst_requeueAtOne(sBuffer, first, last, b, c) ==
  IF isEmpty(first, last)
    THEN [ret |-> FALSE, sBuffer |-> sBuffer, first |-> first, last |-> last,
          buf |-> b, colorIndex |-> c]
    ELSE LET b2          == copyString(sBuffer[first])
             c2          == getColorIndex(sBuffer[first])
             repeatCount == getRepeat(sBuffer[first])
             first2      == (first + 1) % MAX_STRING_BUFFER_SIZE
             p           == IF repeatCount > 0
                              THEN push(sBuffer, first2, last, b2,
                                        (repeatCount - 1) % 256, c2)
                              ELSE [ret |-> FALSE, sBuffer |-> sBuffer,
                                    last |-> last]
         IN  [ret |-> TRUE, sBuffer |-> p.sBuffer, first |-> first2,
              last |-> p.last, buf |-> b2, colorIndex |-> c2]

\* mutant of popFirst: the caller's colour index is not written
popFirst_noColor(sBuffer, first, last, b, c) ==
  IF isEmpty(first, last)
    THEN [ret |-> FALSE, sBuffer |-> sBuffer, first |-> first, last |-> last,
          buf |-> b, colorIndex |-> c]
    ELSE LET b2          == copyString(sBuffer[first])
             repeatCount == getRepeat(sBuffer[first])
             first2      == (first + 1) % MAX_STRING_BUFFER_SIZE
             p           == IF repeatCount > 1
                              THEN push(sBuffer, first2, last, b2,
                                        (repeatCount - 1) % 256, c)
                              ELSE [ret |-> FALSE, sBuffer |-> sBuffer,
                                    last |-> last]
         IN  [ret |-> TRUE, sBuffer |-> p.sBuffer, first |-> first2,
              last |-> p.last, buf |-> b2, colorIndex |-> c]

\* mutant of popFirst: the entry is queued again before the head has moved
\* off its slot
popFirst_pushBeforeAdvance(sBuffer, first, last, b, c) ==
  IF isEmpty(first, last)
    THEN [ret |-> FALSE, sBuffer |-> sBuffer, first |-> first, last |-> last,
          buf |-> b, colorIndex |-> c]
    ELSE LET b2          == copyString(sBuffer[first])
             c2          == getColorIndex(sBuffer[first])
             repeatCount == getRepeat(sBuffer[first])
             first2      == (first + 1) % MAX_STRING_BUFFER_SIZE
             p           == IF repeatCount > 1
                              THEN push(sBuffer, first, last, b2,
                                        (repeatCount - 1) % 256, c2)
                              ELSE [ret |-> FALSE, sBuffer |-> sBuffer,
                                    last |-> last]
         IN  [ret |-> TRUE, sBuffer |-> p.sBuffer, first |-> first2,
              last |-> p.last, buf |-> b2, colorIndex |-> c2]

\* mutant of popFirst: the head entry is returned without asking whether
\* the queue is empty
popFirst_noEmptyCheck(sBuffer, first, last, b, c) ==
  LET b2          == copyString(sBuffer[first])
      c2          == getColorIndex(sBuffer[first])
      repeatCount == getRepeat(sBuffer[first])
      first2      == (first + 1) % MAX_STRING_BUFFER_SIZE
      p           == IF repeatCount > 1
                       THEN push(sBuffer, first2, last, b2,
                                 (repeatCount - 1) % 256, c2)
                       ELSE [ret |-> FALSE, sBuffer |-> sBuffer, last |-> last]
  IN  [ret |-> TRUE, sBuffer |-> p.sBuffer, first |-> first2,
       last |-> p.last, buf |-> b2, colorIndex |-> c2]

\* popFirst: the queue and the caller's arguments after the call, and what
\* the call returns
popFirst(sBuffer, first, last, b, c) ==
  IF isEmpty(first, last)
    THEN [ret |-> FALSE, sBuffer |-> sBuffer, first |-> first, last |-> last,
          buf |-> b, colorIndex |-> c]
    ELSE LET b2          == copyString(sBuffer[first])
             c2          == getColorIndex(sBuffer[first])
             repeatCount == getRepeat(sBuffer[first])
             first2      == (first + 1) % MAX_STRING_BUFFER_SIZE
             p           == IF repeatCount > 1
                              THEN push(sBuffer, first2, last, b2,
                                        (repeatCount - 1) % 256, c2)
                              ELSE [ret |-> FALSE, sBuffer |-> sBuffer,
                                    last |-> last]
         IN  [ret |-> TRUE, sBuffer |-> p.sBuffer, first |-> first2,
              last |-> p.last, buf |-> b2, colorIndex |-> c2]

\* mutant of getFirstIndex: entries on their last repeat are passed over too
RECURSIVE getFirstIndex_skipsOnes(_, _, _)
getFirstIndex_skipsOnes(sBuffer, first, last) ==
  IF getRepeat(sBuffer[first]) <= 1 /\ first # last
    THEN getFirstIndex_skipsOnes(sBuffer,
                                 (first + 1) % MAX_STRING_BUFFER_SIZE, last)
    ELSE first

\* getFirstIndex: the head after the loop, which is also the value returned
RECURSIVE getFirstIndex(_, _, _)
getFirstIndex(sBuffer, first, last) ==
  IF getRepeat(sBuffer[first]) = 0 /\ first # last
    THEN getFirstIndex(sBuffer, (first + 1) % MAX_STRING_BUFFER_SIZE, last)
    ELSE first

getLastIndex(last) == last

(***************************************************************************)
(* History: the identity of the entries.                                   *)
(***************************************************************************)
\* id: the producer call that created the entry (0: none); stamp: the
\* position of this copy among all the entries ever enqueued
NoTag == [id |-> 0, stamp |-> 0]

\* the slots that hold pending entries, oldest first
RECURSIVE Pending(_, _)
Pending(first, last) ==
  IF first = last THEN << >>
  ELSE <<first>> \o Pending((first + 1) % MAX_STRING_BUFFER_SIZE, last)

NoCall == [op |-> "none", str |-> EmptyText, repeat |-> 0, col |-> 0,
           ret |-> FALSE, idx |-> 0, popped |-> NoTag, requeued |-> FALSE,
           pal |-> "none"]

(***************************************************************************)
(* DisplayMatrix and DrawText                                              *)
(***************************************************************************)
\* columns of the pixel grid
Width == 2

\* columns of one glyph
GlyphWidth == 5

\* the delays a driver configures, in ms
MaxDelay == 2

\* the clock stops here
MaxTime == 5

\* texts queued in the specification SpecText
MaxText == 2

\* the clock of the specification SpecHI stops here
MaxTimeHI == 24

\* a grid column that is dark
Blank == [glyph |-> <<" ", 0>>, color |-> 0]

\* the columns of one character: its glyph columns and one blank spacer
charColumns(ch) == [k \in 1..(GlyphWidth + 1) |->
                      IF k <= GlyphWidth THEN <<ch, k>> ELSE <<" ", 0>>]

\* setDisplayText: the columns of a text
RECURSIVE setDisplayText(_)
setDisplayText(txt) ==
  IF txt = << >> THEN << >>
  ELSE charColumns(Head(txt)) \o setDisplayText(Tail(txt))

\* mutant of timeToUpdate: every call is taken to be due
timeToUpdate_always(t, lastUpdateTime, delayMS) == TRUE

\* timeToUpdate: has the delay elapsed since the last update
timeToUpdate(t, lastUpdateTime, delayMS) == t - lastUpdateTime >= delayMS

\* shiftOneLeft, then the new column at the trailing edge
shiftOneLeft(leds, column) == Tail(leds) \o <<column>>

\* mutant of displayingText: the pending queue is not looked at
displayingText_activeOnly(textInBuffer, first, last) ==
  IF textInBuffer THEN TRUE ELSE FALSE

displayingText(textInBuffer, first, last) ==
  IF textInBuffer \/ ~isEmpty(first, last) THEN TRUE ELSE FALSE

(***************************************************************************)
(* The palettes of DisplayMatrix                                           *)
(***************************************************************************)
\* the values of a uint8_t
Bytes == 0..255

matrixPaletteList ==
  <<"RainbowColors_p", "CloudColors_p", "PartyColors_p", "OceanColors_p",
    "LavaColors_p">>

numPalettes == 5

\* getPalette: matrixPaletteList[_paletteIndex].  A read past the end of the
\* list has no defined value: it may give any palette or none of them
getPalette(paletteIndex) ==
  IF paletteIndex < numPalettes
    THEN {matrixPaletteList[paletteIndex + 1]}
    ELSE {matrixPaletteList[k] : k \in 1..numPalettes} \cup {"garbage"}

nextPalette(paletteIndex) == ((paletteIndex + 1) % numPalettes) % 256

(***************************************************************************)
(* GameOfLife                                                              *)
(***************************************************************************)
\* the board is LifeW columns by LifeH rows
LifeW == 5

LifeH == 5

Cells == (0..(LifeW - 1)) \X (0..(LifeH - 1))

\* the eight directions to a neighbour
Around == ({-1, 0, 1} \X {-1, 0, 1}) \ {<<0, 0>>}

\* mutant of countNeighbors: a neighbour beyond an edge is not looked up
countNeighbors_noWrap(board, x, y) ==
  Cardinality({d \in Around :
                 /\ x + d[1] \in 0..(LifeW - 1)
                 /\ y + d[2] \in 0..(LifeH - 1)
                 /\ <<x + d[1], y + d[2]>> \in board})

\* countNeighbors: the live cells among the eight neighbours of (x, y) on
\* the board, x +- 1 and y +- 1 taken modulo the width and the height
countNeighbors(board, x, y) ==
  Cardinality({d \in Around :
                 <<(x + d[1] + LifeW) % LifeW,
                   (y + d[2] + LifeH) % LifeH>> \in board})

\* one generation: every cell of the next board is decided from the board
\* before it (a live cell with 2 or 3 neighbours survives, a dead cell with
\* exactly 3 is born)
nextGeneration(board) ==
  {c \in Cells :
     LET n == countNeighbors(board, c[1], c[2])
     IN  IF c \in board THEN n \in {2, 3} ELSE n = 3}

\* the cell (x + dx, y + dy) on the torus
Wrap(x, y) == <<x % LifeW, y % LifeH>>

\* a glider whose 3 by 3 box has its corner at (ox, oy)
Glider(ox, oy) ==
  {Wrap(ox + 1, oy), Wrap(ox + 2, oy + 1), Wrap(ox, oy + 2),
   Wrap(ox + 1, oy + 2), Wrap(ox + 2, oy + 2)}

\* GameOfLife(...): the object after construction, its board not yet seeded
GameOfLife(delayMS) ==
  [board |-> {}, seed |-> <<0, 0>>, _counter |-> 0, _lastUpdateTime |-> -1,
   _delayMS |-> delayMS]

(***************************************************************************)
(* The state after construction.                                           *)
(***************************************************************************)
\* mutant of DrawText: the object is constructed with its text marked active
DrawText_active ==
  /\ _textInBuffer = TRUE
  /\ _colPtr = 0
  /\ _colLen = 0

\* DrawText(...): _colPtr = 0; _colLen = 0; _textInBuffer = false
DrawText ==
  /\ _textInBuffer = FALSE
  /\ _colPtr = 0
  /\ _colLen = 0

\* the scroller, its queue and the clock
InitText ==
  /\ _sBuffer = [i \in Slots |-> StringUnit]
  /\ _first = 0
  /\ _last = 0
  /\ buf = EmptyText
  /\ colorIndex = 0
  /\ DrawText
  /\ _displayBuffer = << >>
  /\ _lastUpdateTime = -1
  /\ _delayMS \in 1..MaxDelay
  /\ _leds = [x \in 1..Width |-> Blank]
  /\ now = 0
  /\ call = NoCall
  /\ tag = [i \in Slots |-> NoTag]
  /\ pushed = << >>
  /\ popCount = << >>
  /\ npush = 0
  /\ nenq = 0
  /\ ncols = 0

\* every argument at its default
Init ==
  /\ InitText
  /\ _paletteIndex = 0
  /\ life = GameOfLife(1)
  /\ unit = StringUnit

(***************************************************************************)
(* The calls.                                                              *)
(***************************************************************************)
\* what a call of push(str, repeat, col) that returned r does to the state
Pushed(r, str, repeat, col) ==
  /\ _sBuffer' = r.sBuffer
  /\ _last' = r.last
  /\ _first' = _first
  /\ npush' = IF r.ret THEN npush + 1 ELSE npush
  /\ nenq' = IF r.ret THEN nenq + 1 ELSE nenq
  /\ tag' = IF r.ret
              THEN [tag EXCEPT ![_last] = [id |-> npush + 1, stamp |-> nenq + 1]]
              ELSE tag
  /\ pushed' = IF r.ret
                 THEN Append(pushed, [str |-> str, repeat |-> repeat,
                                      col |-> col,
                                      stored |-> r.sBuffer[_last]._str])
                 ELSE pushed
  /\ popCount' = IF r.ret THEN Append(popCount, 0) ELSE popCount

\* what a call of popFirst(buf, &colorIndex) that returned r does to the state
Popped(r) ==
  LET requeued == r.last # _last
  IN  /\ _sBuffer' = r.sBuffer
      /\ _first' = r.first
      /\ _last' = r.last
      /\ buf' = r.buf
      /\ colorIndex' = r.colorIndex
      /\ npush' = npush
      /\ nenq' = IF requeued THEN nenq + 1 ELSE nenq
      /\ tag' = IF requeued
                  THEN [tag EXCEPT ![_last] =
                          [tag[_first] EXCEPT !.stamp = nenq + 1]]
                  ELSE tag
      /\ pushed' = pushed
      /\ popCount' = IF r.ret
                       THEN [popCount EXCEPT ![tag[_first].id] = @ + 1]
                       ELSE popCount

\* a producer calls push(str, repeat, col)
CallPush(str, repeat, col) ==
  LET r == push(_sBuffer, _first, _last, str, repeat, col)
  IN  /\ Pushed(r, str, repeat, col)
      /\ UNCHANGED <<outVars, textVars, timeVars, objVars>>
      /\ call' = [NoCall EXCEPT !.op = "push", !.str = str, !.repeat = repeat,
                                !.col = col, !.ret = r.ret]

\* the consumer calls popFirst(buf, &colorIndex)
CallPopFirst ==
  LET r == popFirst(_sBuffer, _first, _last, buf, colorIndex)
  IN  /\ Popped(r)
      /\ UNCHANGED <<textVars, timeVars, objVars>>
      /\ call' = [NoCall EXCEPT !.op = "popFirst", !.ret = r.ret,
                                !.popped = IF r.ret THEN tag[_first] ELSE NoTag,
                                !.requeued = r.last # _last]

\* the consumer calls getFirstIndex()
CallGetFirstIndex ==
  LET f == getFirstIndex(_sBuffer, _first, _last)
  IN  /\ _first' = f
      /\ UNCHANGED <<_sBuffer, _last, outVars, histVars, textVars, timeVars,
                     objVars>>
      /\ call' = [NoCall EXCEPT !.op = "getFirstIndex", !.idx = f]

\* a producer calls addStringToBuffer(txt, repeat, colIndex)
addStringToBuffer(txt, repeat, colIndex) ==
  LET r == push(_sBuffer, _first, _last, txt, repeat, colIndex)
  IN  /\ Pushed(r, txt, repeat, colIndex)
      /\ UNCHANGED <<outVars, textVars, timeVars, objVars>>
      /\ call' = [NoCall EXCEPT !.op = "addStringToBuffer", !.str = txt,
                                !.repeat = repeat, !.col = colIndex,
                                !.ret = r.ret]

\* the driver calls setDelay(ms)
setDelay(ms) ==
  /\ _delayMS' = ms
  /\ UNCHANGED <<queueVars, outVars, histVars, textVars, _lastUpdateTime, now,
                 objVars>>
  /\ call' = [NoCall EXCEPT !.op = "setDelay"]

\* the driver calls DrawText::update()
update ==
  LET r == popFirst(_sBuffer, _first, _last, buf, colorIndex)
  IN  IF ~timeToUpdate(now, _lastUpdateTime, _delayMS)
        THEN \* too early: nothing happens
             /\ UNCHANGED <<queueVars, outVars, histVars, textVars, timeVars,
                            objVars>>
             /\ call' = [NoCall EXCEPT !.op = "update", !.ret = FALSE]
      ELSE IF ~_textInBuffer /\ ~r.ret
        THEN \* no text is active and none is pending: nothing happens
             /\ UNCHANGED <<queueVars, outVars, histVars, textVars, timeVars,
                            objVars>>
             /\ call' = [NoCall EXCEPT !.op = "update", !.ret = FALSE]
      ELSE LET fresh  == ~_textInBuffer
               dbuf   == IF fresh THEN setDisplayText(r.buf) ELSE _displayBuffer
               len    == IF fresh THEN Len(dbuf) ELSE _colLen
               ptr    == IF fresh THEN 0 ELSE _colPtr
               color  == IF fresh THEN r.colorIndex ELSE colorIndex
               column == IF ptr < Len(dbuf)
                           THEN [glyph |-> dbuf[ptr + 1], color |-> color]
                           ELSE Blank
           IN  /\ IF fresh
                    THEN Popped(r)
                    ELSE UNCHANGED <<queueVars, outVars, histVars>>
               /\ _displayBuffer' = dbuf
               /\ _colLen' = len
               /\ _leds' = shiftOneLeft(_leds, column)
               /\ _colPtr' = ptr + 1
               /\ ncols' = ncols + 1
               /\ _textInBuffer' = (ptr + 1 < len)
               /\ _lastUpdateTime' = now
               /\ UNCHANGED <<_delayMS, now, objVars>>
               /\ call' = [NoCall EXCEPT !.op = "update", !.ret = TRUE,
                             !.popped = IF fresh THEN tag[_first] ELSE NoTag,
                             !.requeued = fresh /\ r.last # _last]

\* a millisecond passes, on a clock that stops at limit
Pass(limit) ==
  /\ now < limit
  /\ now' = now + 1
  /\ UNCHANGED <<queueVars, outVars, histVars, textVars, _lastUpdateTime,
                 _delayMS, call, objVars>>

Tick == Pass(MaxTime)

(***************************************************************************)
(* Spec: the queue on its own.  At most MaxPush entries pushed with any    *)
(* arguments, popFirst and getFirstIndex at any time.                      *)
(***************************************************************************)
ProducerPush ==
  \E in \in Inputs : npush < MaxPush /\ CallPush(in[1], in[2], in[3])

Next ==
  \/ ProducerPush
  \/ CallPopFirst
  \/ CallGetFirstIndex

Spec == Init /\ [][Next]_vars

(***************************************************************************)
(* SpecDrain: the queue being drained.  At most MaxPush entries are pushed *)
(* with any arguments; the consumer calls popFirst again and again, so a   *)
(* call of popFirst that would change the state is never put off forever.  *)
(***************************************************************************)
NextDrain ==
  \/ ProducerPush
  \/ CallPopFirst

SpecDrain == Init /\ [][NextDrain]_vars /\ WF_vars(CallPopFirst)

(***************************************************************************)
(* SpecFill: the queue under load.  The producer's first text is arbitrary *)
(* and its later texts are all the default one; the consumer stays idle    *)
(* until MAX_STRING_BUFFER_SIZE - 1 entries have been enqueued, that is,   *)
(* until the queue has been full.  From then on pushes and pops interleave *)
(* freely until MAX_STRING_BUFFER_SIZE + MaxExtra entries have been        *)
(* enqueued, so that the tail wraps below the head.                        *)
(***************************************************************************)
FillInputs == IF npush = 0 THEN Inputs ELSE {DefaultInput}

MaxEnq == MAX_STRING_BUFFER_SIZE + MaxExtra

FillPush ==
  \E in \in FillInputs : nenq < MaxEnq /\ CallPush(in[1], in[2], in[3])

FillPopFirst ==
  /\ nenq >= MAX_STRING_BUFFER_SIZE - 1
  /\ nenq < MaxEnq
  /\ CallPopFirst

NextFill ==
  \/ FillPush
  \/ FillPopFirst
  \/ CallGetFirstIndex

SpecFill == Init /\ [][NextFill]_vars

(***************************************************************************)
(* SpecText: the scroller.  A producer queues at most MaxText texts, the   *)
(* driver calls update() and setDelay() at any time, and the clock runs to *)
(* MaxTime.                                                                *)
(***************************************************************************)
TextInputs ==
  {in \in {EmptyText, TextA, TextHI} \X (1..2) \X Colors :
     in[3] = colorOf(in[1], in[2])}

QueueText ==
  \E in \in TextInputs :
    npush < MaxText /\ addStringToBuffer(in[1], in[2], in[3])

SetDelay == \E ms \in 1..MaxDelay : setDelay(ms)

NextText ==
  \/ QueueText
  \/ update
  \/ SetDelay
  \/ Tick

SpecText == Init /\ [][NextText]_vars

(***************************************************************************)
(* SpecHI: one text on the scroller.  The producer queues "HI" once, with  *)
(* repeat 1, on the empty queue; the driver calls update() at any time and *)
(* the clock runs to MaxTimeHI, long enough for the text to scroll out.    *)
(***************************************************************************)
QueueHI == npush = 0 /\ addStringToBuffer(TextHI, 1, 0)

TickHI == Pass(MaxTimeHI)

NextHI ==
  \/ QueueHI
  \/ update
  \/ TickHI

SpecHI == Init /\ [][NextHI]_vars

(***************************************************************************)
(* SpecPalette: the palette cursor.  The object is constructed with any    *)
(* palIndex a uint8_t holds; the driver calls nextPalette() and            *)
(* getPalette() at any time.                                               *)
(***************************************************************************)
InitPalette ==
  /\ InitText
  /\ _paletteIndex \in Bytes
  /\ life = GameOfLife(1)
  /\ unit = StringUnit

\* the driver calls nextPalette()
CallNextPalette ==
  /\ _paletteIndex' = nextPalette(_paletteIndex)
  /\ UNCHANGED <<queueVars, outVars, histVars, textVars, timeVars, life, unit>>
  /\ call' = [NoCall EXCEPT !.op = "nextPalette",
                            !.idx = nextPalette(_paletteIndex)]

\* the driver calls getPalette()
CallGetPalette ==
  \E p \in getPalette(_paletteIndex) :
    /\ UNCHANGED <<queueVars, outVars, histVars, textVars, timeVars, objVars>>
    /\ call' = [NoCall EXCEPT !.op = "getPalette", !.idx = _paletteIndex,
                              !.pal = p]

NextPalette ==
  \/ CallNextPalette
  \/ CallGetPalette

SpecPalette == InitPalette /\ [][NextPalette]_vars

(***************************************************************************)
(* SpecLife: the Game of Life.  The board holds one glider, seeded at any  *)
(* cell of the torus; the driver calls update() at any time and the clock  *)
(* runs to MaxTime.                                                        *)
(***************************************************************************)
InitLife ==
  /\ InitText
  /\ _paletteIndex = 0
  /\ unit = StringUnit
  /\ \E delayMS \in 1..MaxDelay, c \in Cells :
       life = [GameOfLife(delayMS) EXCEPT !.board = Glider(c[1], c[2]),
                                           !.seed = c]

\* the driver calls GameOfLife::update()
LifeUpdate ==
  /\ UNCHANGED <<queueVars, outVars, histVars, textVars, timeVars,
                 _paletteIndex, unit>>
  /\ IF ~timeToUpdate(now, life._lastUpdateTime, life._delayMS)
       THEN /\ life' = life
            /\ call' = [NoCall EXCEPT !.op = "GameOfLife::update",
                                      !.ret = FALSE]
       ELSE /\ life' = [life EXCEPT !.board = nextGeneration(@),
                                    !._counter = (@ + 1) % 256,
                                    !._lastUpdateTime = now]
            /\ call' = [NoCall EXCEPT !.op = "GameOfLife::update",
                                      !.ret = TRUE]

NextLife ==
  \/ LifeUpdate
  \/ Tick

SpecLife == InitLife /\ [][NextLife]_vars

(***************************************************************************)
(* SpecUnit: a StringUnit on its own.  Its setters are called at any time, *)
(* setRepeat with every value a uint8_t holds.                             *)
(***************************************************************************)
\* a call on the unit that leaves it as u
UnitCall(u, c) ==
  /\ unit' = u
  /\ call' = c
  /\ UNCHANGED <<queueVars, outVars, histVars, textVars, timeVars,
                 _paletteIndex, life>>

UnitSetValues ==
  \E in \in Inputs :
    UnitCall(setValues(unit, in[1], in[2], in[3]),
             [NoCall EXCEPT !.op = "setValues", !.str = in[1],
                            !.repeat = in[2], !.col = in[3]])

UnitSetRepeat ==
  \E repeat \in Bytes :
    UnitCall(setRepeat(unit, repeat),
             [NoCall EXCEPT !.op = "setRepeat", !.repeat = repeat])

UnitSetString ==
  \E str \in Texts :
    UnitCall(setString(unit, str),
             [NoCall EXCEPT !.op = "setString", !.str = str])

NextUnit ==
  \/ UnitSetValues
  \/ UnitSetRepeat
  \/ UnitSetString

SpecUnit == Init /\ [][NextUnit]_vars

(***************************************************************************)
(* Properties.                                                             *)
(***************************************************************************)
\* the step is a call of push or of addStringToBuffer
PushStep == call'.op \in {"push", "addStringToBuffer"}

\* the step is a call of popFirst
PopStep == call'.op = "popFirst"

\* the number of pending entries, counted slot by slot from head to tail
CountOf(first, last) == Len(Pending(first, last))

Count == CountOf(_first, _last)

\* C1: a push on a full queue returns false and leaves head, tail and every
\* stored entry unchanged; a push on a queue that is not full returns true,
\* writes the entry (repeat, colour, and the text when it is shorter than
\* MAX_STRING_LENGTH) into the slot at the old tail, changes no other slot,
\* advances the tail by exactly one modulo MAX_STRING_BUFFER_SIZE and leaves
\* the head unchanged.
C1_PushContract ==
  [][PushStep =>
       IF (_last + 1) % MAX_STRING_BUFFER_SIZE = _first
         THEN /\ call'.ret = FALSE
              /\ _first' = _first
              /\ _last' = _last
              /\ _sBuffer' = _sBuffer
         ELSE /\ call'.ret = TRUE
              /\ _first' = _first
              /\ _last' = (_last + 1) % MAX_STRING_BUFFER_SIZE
              /\ _sBuffer'[_last]._repeat = call'.repeat
              /\ _sBuffer'[_last]._colorIndex = call'.col
              /\ _sBuffer'[_last]._str =
                   IF Len(call'.str) < MAX_STRING_LENGTH
                     THEN call'.str ELSE _sBuffer[_last]._str
              /\ \A i \in Slots \ {_last} : _sBuffer'[i] = _sBuffer[i]]_vars

\* C1 witness: a push has just been refused by a full queue
C1_Witness ==
  /\ call.op = "push"
  /\ call.ret = FALSE
  /\ (_last + 1) % MAX_STRING_BUFFER_SIZE = _first
  /\ Count = MAX_STRING_BUFFER_SIZE - 1

\* C2: a push succeeds if and only if fewer than MAX_STRING_BUFFER_SIZE - 1
\* entries are pending, a successful push adds exactly one pending entry, and
\* the queue never holds more than MAX_STRING_BUFFER_SIZE - 1 entries; from
\* the empty queue the first MAX_STRING_BUFFER_SIZE - 1 pushes succeed and the
\* next one fails.
C2_Capacity ==
  [][PushStep =>
       /\ call'.ret = (Count < MAX_STRING_BUFFER_SIZE - 1)
       /\ call'.ret => CountOf(_first', _last') = Count + 1
       /\ ~call'.ret => CountOf(_first', _last') = Count
       /\ CountOf(_first', _last') <= MAX_STRING_BUFFER_SIZE - 1
       /\ (_first = 0 /\ nenq = npush /\ npush < MAX_STRING_BUFFER_SIZE - 1)
            => call'.ret = TRUE
       /\ (_first = 0 /\ nenq = npush /\ npush = MAX_STRING_BUFFER_SIZE - 1
             /\ _last = MAX_STRING_BUFFER_SIZE - 1)
            => call'.ret = FALSE]_vars

\* C2 witness: MAX_STRING_BUFFER_SIZE - 1 pushes in a row have succeeded and
\* the next one has just failed
C2_Witness ==
  /\ call.op = "push"
  /\ call.ret = FALSE
  /\ _first = 0
  /\ npush = MAX_STRING_BUFFER_SIZE - 1
  /\ nenq = npush
  /\ Count = MAX_STRING_BUFFER_SIZE - 1

\* C3: popFirst on an empty queue returns false and changes neither cursor,
\* no stored entry, and neither the caller's text buffer nor its colour index.
C3_PopEmpty ==
  [][(PopStep /\ _last = _first) =>
       /\ call'.ret = FALSE
       /\ _first' = _first
       /\ _last' = _last
       /\ _sBuffer' = _sBuffer
       /\ buf' = buf
       /\ colorIndex' = colorIndex]_vars

\* C3 witness: popFirst has just failed on a queue that earlier pops have
\* emptied, and the caller still holds the text and colour of the last pop
C3_Witness ==
  /\ call.op = "popFirst"
  /\ call.ret = FALSE
  /\ _last = _first
  /\ _first # 0
  /\ buf = TextHI
  /\ colorIndex = 1

\* the ids of the entries producers have pushed
Ids == 1..Len(pushed)

\* the slots that hold a pending copy of entry i
SlotsOf(i) ==
  LET P == Pending(_first, _last)
  IN  {P[k] : k \in {j \in 1..Len(P) : tag[P[j]].id = i}}

\* C4: an entry pushed with repeat r >= 1 is returned by popFirst exactly r
\* times in total: while it is pending there is one copy of it, with the
\* text and colour of the first copy and with repeat r minus the number of
\* times it has been returned, which stays above 0; once it is no longer
\* pending it has been returned exactly r times; and every pop of it gives
\* the caller that text and colour.
C4_RepeatCount ==
  /\ \A i \in Ids :
       pushed[i].repeat >= 1 =>
         /\ Cardinality(SlotsOf(i)) <= 1
         /\ popCount[i] <= pushed[i].repeat
         /\ \A sl \in SlotsOf(i) :
              /\ _sBuffer[sl]._repeat = pushed[i].repeat - popCount[i]
              /\ _sBuffer[sl]._repeat >= 1
              /\ _sBuffer[sl]._str = pushed[i].stored
              /\ _sBuffer[sl]._colorIndex = pushed[i].col
         /\ SlotsOf(i) = {} => popCount[i] = pushed[i].repeat
  /\ (call.op = "popFirst" /\ call.ret /\ pushed[call.popped.id].repeat >= 1)
       => /\ buf = pushed[call.popped.id].stored
          /\ colorIndex = pushed[call.popped.id].col
          /\ call.requeued = (popCount[call.popped.id]
                                < pushed[call.popped.id].repeat)

\* C4 witness: an entry pushed with repeat 3 behind another entry has been
\* returned three times and is gone
C4_Witness ==
  /\ Len(pushed) = 2
  /\ pushed[2].repeat = 3
  /\ popCount[2] = 3
  /\ SlotsOf(2) = {}
  /\ popCount[1] >= 1

\* C5: popFirst never returns an entry that was pushed with repeat 0; it
\* skips such entries and returns the first pending entry with repeat > 0.
C5_SkipsZeroRepeat ==
  /\ \A i \in Ids : pushed[i].repeat = 0 => popCount[i] = 0
  /\ (call.op = "popFirst" /\ call.ret) => pushed[call.popped.id].repeat > 0

\* C6: both cursors lie in 0..MAX_STRING_BUFFER_SIZE-1; isEmpty holds iff
\* tail = head; isFull holds iff (tail + 1) mod MAX_STRING_BUFFER_SIZE = head;
\* nElements is (tail - head) mod MAX_STRING_BUFFER_SIZE, which is the number
\* of slots from head up to tail; nElements is 0 iff isEmpty and
\* MAX_STRING_BUFFER_SIZE - 1 iff isFull.
C6_Queries ==
  /\ _first \in 0..(MAX_STRING_BUFFER_SIZE - 1)
  /\ _last \in 0..(MAX_STRING_BUFFER_SIZE - 1)
  /\ isEmpty(_first, _last) = (_last = _first)
  /\ isFull(_first, _last) = ((_last + 1) % MAX_STRING_BUFFER_SIZE = _first)
  /\ nElements(_first, _last) = (_last - _first) % MAX_STRING_BUFFER_SIZE
  /\ nElements(_first, _last) = Count
  /\ (nElements(_first, _last) = 0) = isEmpty(_first, _last)
  /\ (nElements(_first, _last) = MAX_STRING_BUFFER_SIZE - 1)
       = isFull(_first, _last)

\* C6 witness: the tail has wrapped below the head and the queue is full
C6_Witness ==
  /\ _last < _first
  /\ isFull(_first, _last)
  /\ nElements(_first, _last) = MAX_STRING_BUFFER_SIZE - 1

\* C7: a push whose text has MAX_STRING_LENGTH characters or more returns
\* false, and the slot at the tail keeps its repeat count and colour.
C7_LongTextRejected ==
  (call.op \in {"push", "addStringToBuffer"}
     /\ Len(call.str) >= MAX_STRING_LENGTH)
    => call.ret = FALSE

\* C8: the pending entries lie oldest first from head to tail, each with the
\* text (when it was of valid length) and the colour given to the push that
\* created it; popFirst returns the oldest pending entry with that text and
\* colour; an entry popFirst queues again lies behind every entry that was
\* pending at that pop.
C8_Fifo ==
  LET P == Pending(_first, _last)
      valid(i) == Len(pushed[i].str) < MAX_STRING_LENGTH
  IN  /\ \A k \in 1..(Len(P) - 1) : tag[P[k]].stamp < tag[P[k + 1]].stamp
      /\ \A k \in 1..Len(P) :
           /\ tag[P[k]].id \in Ids
           /\ valid(tag[P[k]].id)
                => _sBuffer[P[k]]._str = pushed[tag[P[k]].id].str
           /\ _sBuffer[P[k]]._colorIndex = pushed[tag[P[k]].id].col
      /\ (call.op = "popFirst" /\ call.ret) =>
           /\ call.popped.id \in Ids
           /\ \A k \in 1..Len(P) :
                tag[P[k]].id # call.popped.id
                  => call.popped.stamp < tag[P[k]].stamp
           /\ valid(call.popped.id) => buf = pushed[call.popped.id].str
           /\ colorIndex = pushed[call.popped.id].col
           /\ call.requeued =>
                /\ Len(P) >= 1
                /\ tag[P[Len(P)]].id = call.popped.id
                /\ tag[P[Len(P)]].stamp > call.popped.stamp

\* C8 witness: of two entries with different texts and colours the older one,
\* pushed with repeat 2, has been returned, and its second copy lies behind
\* the younger one
C8_Witness ==
  /\ call.op = "popFirst"
  /\ call.ret
  /\ call.requeued
  /\ call.popped.id = 1
  /\ Len(pushed) = 2
  /\ pushed[1].str = TextHI
  /\ pushed[2].str = TextA
  /\ pushed[1].col # pushed[2].col
  /\ buf = TextHI
  /\ Len(Pending(_first, _last)) = 2
  /\ tag[_first].id = 2

\* C9: displayingText() is true exactly when a text is being rendered or
\* entries are pending; it is true after every successful addStringToBuffer,
\* and false only when no text is active and head = tail.
C9_DisplayingText ==
  LET d == displayingText(_textInBuffer, _first, _last)
  IN  /\ d = (_textInBuffer \/ Count > 0)
      /\ (call.op = "addStringToBuffer" /\ call.ret) => d
      /\ ~d => (~_textInBuffer /\ _first = _last)

\* C9 witness: a text has just been queued while nothing is being rendered
C9_Witness ==
  /\ call.op = "addStringToBuffer"
  /\ call.ret
  /\ ~_textInBuffer
  /\ displayingText(_textInBuffer, _first, _last)

\* the step is a call of update()
UpdateStep == call'.op = "update" /\ now' = now

\* the time since the last update
Elapsed == now - _lastUpdateTime

C11_IdleUpdate ==
  [][(UpdateStep /\ ~_textInBuffer /\ isEmpty(_first, _last)) =>
       (/\ call'.ret = FALSE
        /\ UNCHANGED <<queueVars, outVars, textVars, timeVars>>)]_vars

\* an idle update() has been called after the delay had elapsed, the texts
\* queued before it all displayed to their end
C11_Witness ==
  /\ call.op = "update"
  /\ call.ret = FALSE
  /\ ~_textInBuffer
  /\ isEmpty(_first, _last)
  /\ Elapsed >= _delayMS
  /\ npush > 0
  /\ ncols > 0

\* the columns of "HI": each of its characters gives GlyphWidth glyph columns
\* and one spacer
ColumnsHI == Len(TextHI) * (GlyphWidth + 1)

C13_PaletteIndex ==
  /\ _paletteIndex \in 0..(numPalettes - 1)
  /\ call.op = "getPalette" =>
       /\ call.idx \in 0..(numPalettes - 1)
       /\ call.pal = matrixPaletteList[call.idx + 1]

\* the glider seeded at life.seed, moved k cells along the diagonal
GliderMoved(l, k) == Glider(l.seed[1] + k, l.seed[2] + k)

\* C14: in every GameOfLife::update() that advances the board, every
\* neighbour count is in 0..8 and the new board is decided cell by cell from
\* the board before the call alone; and after every fourth generation the
\* glider seeded anywhere on the torus, its box straddling an edge or not,
\* has its shape again, one cell further along the diagonal modulo the width
\* and the height.
C14_Glider ==
  [][life' # life =>
       /\ \A c \in Cells : countNeighbors(life.board, c[1], c[2]) \in 0..8
       /\ \A c \in Cells :
            c \in life'.board <=>
              \/ c \in life.board
                   /\ countNeighbors(life.board, c[1], c[2]) \in {2, 3}
              \/ c \notin life.board
                   /\ countNeighbors(life.board, c[1], c[2]) = 3
       /\ life'._counter % 4 = 0 =>
            life'.board = GliderMoved(life', life'._counter \div 4)]_vars

\* a glider seeded in the corner where the right and the bottom edge meet has
\* been advanced four times
C14_Witness ==
  /\ call.op = "GameOfLife::update"
  /\ call.ret = TRUE
  /\ life._counter = 4
  /\ life.seed = <<LifeW - 1, LifeH - 1>>
  /\ life.board = Glider(0, 0)
  /\ life.board # Glider(LifeW - 1, LifeH - 1)

C16_SetRepeat ==
  [][/\ call'.op = "setRepeat" => unit' = unit
     /\ unit'._repeat # unit._repeat =>
          (call'.op = "setValues" /\ unit'._repeat = call'.repeat)]_vars

\* setRepeat has been called with a value other than the repeat count that
\* setValues had stored, and that count is still there
C16_Witness ==
  /\ call.op = "setRepeat"
  /\ unit._repeat = MaxRepeat
  /\ call.repeat # unit._repeat
  /\ call.repeat > 0

\* C17: a call of popFirst whose head entry has a repeat count above 1
\* returns true and queues the entry again, also when the queue was full
\* before the call: the tail moves on by one, the slot at the old tail holds
\* the entry's text and colour with a repeat count one lower, and the number
\* of pending entries is what it was.
C17_Requeue ==
  [][(PopStep /\ ~isEmpty(_first, _last) /\ getRepeat(_sBuffer[_first]) > 1) =>
       /\ call'.ret = TRUE
       /\ call'.requeued
       /\ _first' = (_first + 1) % MAX_STRING_BUFFER_SIZE
       /\ _last' = (_last + 1) % MAX_STRING_BUFFER_SIZE
       /\ _sBuffer'[_last] =
            [_sBuffer[_first] EXCEPT !._repeat = _sBuffer[_first]._repeat - 1]
       /\ tag'[_last].id = tag[_first].id
       /\ CountOf(_first', _last') = Count
       /\ isFull(_first, _last) => isFull(_first', _last')]_vars

\* popFirst has queued an entry again on a queue that was full before the
\* call and is full after it, the tail having wrapped
C17_Witness ==
  /\ call.op = "popFirst"
  /\ call.ret = TRUE
  /\ call.requeued
  /\ isFull(_first, _last)
  /\ Count = MAX_STRING_BUFFER_SIZE - 1
  /\ _last < _first
  /\ _sBuffer[(_last + MAX_STRING_BUFFER_SIZE - 1) % MAX_STRING_BUFFER_SIZE]._repeat >= 1

\* the calls of popFirst still to succeed: over the pending entries from
\* first to last, the sum of max(repeat, 1)
RECURSIVE Remaining(_, _, _)
Remaining(sBuffer, first, last) ==
  IF first = last THEN 0
  ELSE (IF getRepeat(sBuffer[first]) > 1 THEN getRepeat(sBuffer[first]) ELSE 1)
       + Remaining(sBuffer, (first + 1) % MAX_STRING_BUFFER_SIZE, last)

C19_GetFirstIndex ==
  [][call'.op = "getFirstIndex" =>
       /\ _last' = _last
       /\ _sBuffer' = _sBuffer
       /\ call'.idx = _first'
       /\ \E k \in 0..Count :
            /\ _first' = (_first + k) % MAX_STRING_BUFFER_SIZE
            /\ \A j \in 0..(k - 1) :
                 getRepeat(_sBuffer[(_first + j) % MAX_STRING_BUFFER_SIZE]) = 0
            /\ k < Count => getRepeat(_sBuffer[_first']) > 0
            /\ k = Count => _first' = _last]_vars

\* getFirstIndex() has moved the head over an entry pushed with repeat 0 that
\* popFirst never returned, and stopped at the entry behind it
C19_Witness ==
  /\ call.op = "getFirstIndex"
  /\ Len(pushed) = 2
  /\ pushed[1].repeat = 0
  /\ popCount[1] = 0
  /\ pushed[2].repeat > 0
  /\ popCount[2] = 0
  /\ _first = 1
  /\ call.idx = 1
  /\ _last = 2

====
